---- MODULE Spec2Model ----
(***************************************************************************)
(* Protocol and simulation core of the virtual trainer                     *)
(* (src/virtual_trainer.py, class VirtualTrainer).                         *)
(*                                                                         *)
(* Fixed-point units of the float fields:                                  *)
(*   power                      1/100 W        (cW)                        *)
(*   cadence                    1/100 rpm                                  *)
(*   speed                      1/100 km/h                                 *)
(*   current_grade              1/100 %                                    *)
(*   current_wind_speed         1/1000 m/s                                 *)
(*   solver velocity            1/100 m/s                                  *)
(* base_power, target_power, pre_super_tuck_base_power, base_cadence and   *)
(* target_resistance only ever hold Python ints and are kept in W / rpm.   *)
(*                                                                         *)
(* self.super_tuck_speed is assigned on lines 781, 788 and 798 and read    *)
(* nowhere (not by the encoders either); it is not a variable here.        *)
(* heart_rate, current_resistance and default_start_power are never        *)
(* assigned after the constructor and never read.                          *)
(***************************************************************************)
EXTENDS Integers, Sequences, FiniteSets, TLC

VARIABLES
    power,                      \* self.power
    cadence,                    \* self.cadence
    speed,                      \* self.speed
    target_resistance,          \* self.target_resistance
    is_running,                 \* self.is_running
    base_power,                 \* self.base_power
    base_cadence,               \* self.base_cadence
    power_variance_level,       \* self.power_variance_level
    power_variance_percent,     \* self.power_variance_percent
    erg_mode_enabled,           \* self.erg_mode_enabled
    target_power,               \* self.target_power
    current_grade,              \* self.current_grade
    current_wind_speed,         \* self.current_wind_speed
    is_stopped,                 \* self.is_stopped
    is_super_tuck,              \* self.is_super_tuck
    pre_super_tuck_base_power,  \* self.pre_super_tuck_base_power
    physics,                    \* self.rider_weight, self.cda, self.crr
                                \* and self.rho, as one record
    last,                       \* the operation that produced this state, its
                                \* input and the calls it made to the transport
    loop,                       \* update_loop: its position, its locals
                                \* bike_data and power_data
    held                        \* the values the server holds for the two
                                \* telemetry characteristics

trainerVars ==
    <<power, cadence, speed, target_resistance, is_running, base_power,
      base_cadence, power_variance_level, power_variance_percent,
      erg_mode_enabled, target_power, current_grade, current_wind_speed,
      is_stopped, is_super_tuck, pre_super_tuck_base_power, physics>>

loopVars == <<loop, held>>

vars == <<trainerVars, last, loopVars>>

\* The VirtualTrainer object as one record.
self ==
    [power |-> power, cadence |-> cadence, speed |-> speed,
     target_resistance |-> target_resistance, is_running |-> is_running,
     base_power |-> base_power, base_cadence |-> base_cadence,
     power_variance_level |-> power_variance_level,
     power_variance_percent |-> power_variance_percent,
     erg_mode_enabled |-> erg_mode_enabled, target_power |-> target_power,
     current_grade |-> current_grade,
     current_wind_speed |-> current_wind_speed,
     is_stopped |-> is_stopped, is_super_tuck |-> is_super_tuck,
     pre_super_tuck_base_power |-> pre_super_tuck_base_power,
     physics |-> physics]

\* The fields of record s become the next state.
Becomes(s) ==
    /\ power' = s.power
    /\ cadence' = s.cadence
    /\ speed' = s.speed
    /\ target_resistance' = s.target_resistance
    /\ is_running' = s.is_running
    /\ base_power' = s.base_power
    /\ base_cadence' = s.base_cadence
    /\ power_variance_level' = s.power_variance_level
    /\ power_variance_percent' = s.power_variance_percent
    /\ erg_mode_enabled' = s.erg_mode_enabled
    /\ target_power' = s.target_power
    /\ current_grade' = s.current_grade
    /\ current_wind_speed' = s.current_wind_speed
    /\ is_stopped' = s.is_stopped
    /\ is_super_tuck' = s.is_super_tuck
    /\ pre_super_tuck_base_power' = s.pre_super_tuck_base_power
    /\ physics' = s.physics

Max(a, b) == IF a >= b THEN a ELSE b
Min(a, b) == IF a <= b THEN a ELSE b
Abs(a) == IF a < 0 THEN -a ELSE a

(***************************************************************************)
(* Program constants                                                       *)
(***************************************************************************)
FITNESS_MACHINE_CONTROL_POINT_UUID == "00002ad9-0000-1000-8000-00805f9b34fb"
CYCLING_POWER_CONTROL_POINT_UUID == "00002a66-0000-1000-8000-00805f9b34fb"
FTMS_SERVICE_UUID == "00001826-0000-1000-8000-00805f9b34fb"

\* self.VARIANCE_LEVELS, in percent
VARIANCE_LEVELS == [chill |-> 50, focused |-> 10, standard |-> 25, exact |-> 0]

cadence_variation == 5

\* lines 111-114: the parameters of the physics model
rider_weight == 80              \* kg
cda == 300                      \* 1/1000 m^2
crr == 4                        \* 1/1000
rho == 1226                     \* 1/1000 kg/m^3

super_tuck_speed_threshold == 7000
super_tuck_grade_threshold_entry == -800
super_tuck_grade_threshold_exit == -300
MaxPowerW == 2000
MaxCadenceRpm == 200
MaxSpeedKmh == 150
ErgVariancePercent == 3

(***************************************************************************)
(* Bounds and input sets                                                   *)
(***************************************************************************)
\* random.uniform(-a, a) is sampled at the points a*k/JitterDen, k in
\* -JitterDen..JitterDen
JitterDen == 1
JitterSteps == (-JitterDen)..JitterDen

\* --power and --cadence of main(); 0 is the constructor's own base_power
PowerArgs == {0, 150}
CadenceArgs == {85}

(***************************************************************************)
(* Binary codec of the control point                                       *)
(***************************************************************************)
\* struct.unpack('<h', two bytes)
UnpackInt16(lo, hi) ==
    LET u == lo + 256 * hi IN IF u >= 32768 THEN u - 65536 ELSE u

\* struct.unpack('<b', one byte)
UnpackInt8(b) == IF b >= 128 THEN b - 256 ELSE b

\* struct.pack('<BBB', 0x80, request_opcode, result_code)
PackResponse(request_opcode, result_code) == <<128, request_opcode, result_code>>

\* The two calls _send_control_point_response makes to the server: it sets
\* the held value of the Fitness Machine Control Point and then indicates
\* that characteristic.
SendControlPointResponseAlwaysSuccess(request_opcode, result_code) ==
    <<[call |-> "set_value", char |-> FITNESS_MACHINE_CONTROL_POINT_UUID,
       value |-> PackResponse(request_opcode, 1)],
      [call |-> "update_value", service |-> FTMS_SERVICE_UUID,
       char |-> FITNESS_MACHINE_CONTROL_POINT_UUID]>>

_send_control_point_response(request_opcode, result_code) ==
    <<[call |-> "set_value", char |-> FITNESS_MACHINE_CONTROL_POINT_UUID,
       value |-> PackResponse(request_opcode, result_code)],
      [call |-> "update_value", service |-> FTMS_SERVICE_UUID,
       char |-> FITNESS_MACHINE_CONTROL_POINT_UUID]>>

\* _correct_grade: negative grades are doubled
\* _correct_grade without the doubling of negative grades
CorrectGradeUnchanged(grade) == grade

_correct_grade(grade) == IF grade < 0 THEN grade * 2 ELSE grade

(***************************************************************************)
(* Control protocol handler.  Each branch returns the trainer after the    *)
(* command (st) and the transport calls made (calls).                      *)
(***************************************************************************)
Handled(s, c) == [st |-> s, calls |-> c]

\* opcode 0x01
\* opcode 0x01 without the assignments of lines 449-450
ResetKeepsPowerAndCadence(s, opcode) ==
    Handled([s EXCEPT !.erg_mode_enabled = FALSE,
                      !.target_power = 0],
            _send_control_point_response(opcode, 1))

ResetCommand(s, opcode) ==
    Handled([s EXCEPT !.erg_mode_enabled = FALSE,
                      !.target_power = 0,
                      !.power = s.base_power * 100,
                      !.cadence = s.base_cadence * 100],
            _send_control_point_response(opcode, 1))

\* opcode 0x04
SetTargetResistanceAnyLength(s, data) ==
    Handled(IF Len(data) >= 2
               THEN [s EXCEPT !.target_resistance = UnpackInt8(data[2])]
               ELSE s,
            _send_control_point_response(data[1], 1))

\* opcode 0x04 storing the level in target_power
SetTargetResistanceIntoTargetPower(s, data) ==
    IF Len(data) >= 2
    THEN Handled([s EXCEPT !.target_power = UnpackInt8(data[2])],
                 _send_control_point_response(data[1], 1))
    ELSE Handled(s, <<>>)

SetTargetResistance(s, data) ==
    IF Len(data) >= 2
    THEN Handled([s EXCEPT !.target_resistance = UnpackInt8(data[2])],
                 _send_control_point_response(data[1], 1))
    ELSE Handled(s, <<>>)

\* opcode 0x05
SetTargetPowerNonNegative(s, data) ==
    IF Len(data) >= 3
    THEN LET target == UnpackInt16(data[2], data[3])
             erg == [s EXCEPT !.target_power = target,
                              !.erg_mode_enabled = TRUE]
         IN Handled(IF target >= 0
                       THEN [erg EXCEPT !.power = target * 100,
                                        !.base_power = 0]
                       ELSE [erg EXCEPT !.power = 0],
                    _send_control_point_response(data[1], 1))
    ELSE Handled(s, <<>>)

SetTargetPower(s, data) ==
    IF Len(data) >= 3
    THEN LET target == UnpackInt16(data[2], data[3])
             erg == [s EXCEPT !.target_power = target,
                              !.erg_mode_enabled = TRUE]
         IN Handled(IF target > 0
                       THEN [erg EXCEPT !.power = target * 100,
                                        !.base_power = 0]
                       ELSE [erg EXCEPT !.power = 0],
                    _send_control_point_response(data[1], 1))
    ELSE Handled(s, <<>>)

\* opcode 0x11: ERG mode is cleared before the length of the frame is
\* looked at; crr and cw (bytes 6 and 7) are unpacked into locals of the
\* handler and not used
\* opcode 0x11 storing the cw byte (1/100) in self.cda
SimulationStoresCw(s, data) ==
    LET sim == IF s.erg_mode_enabled
                  THEN [s EXCEPT !.erg_mode_enabled = FALSE,
                                 !.target_power = 0]
                  ELSE s
    IN IF Len(data) >= 7
       THEN LET wind_speed == UnpackInt16(data[2], data[3])
                grade_raw == UnpackInt16(data[4], data[5])
            IN Handled([sim EXCEPT
                          !.current_grade = _correct_grade(grade_raw),
                          !.current_wind_speed = wind_speed,
                          !.physics.cda = data[7] * 10],
                       _send_control_point_response(data[1], 1))
       ELSE Handled(sim, <<>>)

SetSimulationParameters(s, data) ==
    LET sim == IF s.erg_mode_enabled
                  THEN [s EXCEPT !.erg_mode_enabled = FALSE,
                                 !.target_power = 0]
                  ELSE s
    IN IF Len(data) >= 7
       THEN LET wind_speed == UnpackInt16(data[2], data[3])
                grade_raw == UnpackInt16(data[4], data[5])
            IN Handled([sim EXCEPT
                          !.current_grade = _correct_grade(grade_raw),
                          !.current_wind_speed = wind_speed],
                       _send_control_point_response(data[1], 1))
       ELSE Handled(sim, <<>>)

_handle_control_point_command(s, data) ==
    IF Len(data) = 0 THEN Handled(s, <<>>)
    ELSE LET opcode == data[1] IN
         CASE opcode = 0 -> Handled(s, _send_control_point_response(opcode, 1))
           [] opcode = 1 -> ResetCommand(s, opcode)
           [] opcode = 4 -> SetTargetResistance(s, data)
           [] opcode = 5 -> SetTargetPower(s, data)
           [] opcode = 7 -> Handled([s EXCEPT !.is_running = TRUE],
                                    _send_control_point_response(opcode, 1))
           [] opcode = 8 -> Handled([s EXCEPT !.is_running = FALSE],
                                    _send_control_point_response(opcode, 1))
           [] opcode = 17 -> SetSimulationParameters(s, data)
           [] OTHER -> Handled(s, _send_control_point_response(opcode, 2))

\* write_handler of setup_server: both control points reach the same handler
write_handler(s, characteristic, value) ==
    IF characteristic = FITNESS_MACHINE_CONTROL_POINT_UUID
    THEN _handle_control_point_command(s, value)
    ELSE IF characteristic = CYCLING_POWER_CONTROL_POINT_UUID
    THEN _handle_control_point_command(s, value)
    ELSE Handled(s, <<>>)

(***************************************************************************)
(* Operator commands                                                       *)
(***************************************************************************)
\* start_power without the test of is_stopped
StartPowerUnconditional(s) ==
    [s EXCEPT !.is_stopped = FALSE, !.power = 0, !.base_power = 0,
              !.cadence = 0]

start_power(s) ==
    IF s.is_stopped
    THEN [s EXCEPT !.is_stopped = FALSE, !.power = 0, !.base_power = 0,
                   !.cadence = 0]
    ELSE s

stop_power(s) ==
    [s EXCEPT !.is_stopped = TRUE, !.power = 0, !.base_power = 0,
              !.cadence = 0, !.speed = 0]

\* update_power without the range check of lines 820-822
UpdatePowerNoRangeCheck(s, new_power, variance_level) ==
    IF new_power = 0 THEN stop_power(s)
    ELSE [s EXCEPT !.is_stopped = FALSE,
                   !.erg_mode_enabled = FALSE,
                   !.target_power = 0,
                   !.power = new_power * 100,
                   !.base_power = new_power,
                   !.cadence = IF s.cadence = 0 THEN s.base_cadence * 100
                               ELSE s.cadence]

\* update_power without the clearing of ERG mode of lines 840-843
UpdatePowerKeepsErg(s, new_power, variance_level) ==
    IF new_power < 0 \/ new_power > MaxPowerW THEN s
    ELSE IF new_power = 0 THEN stop_power(s)
    ELSE [s EXCEPT !.is_stopped = FALSE,
                   !.power = new_power * 100,
                   !.base_power = new_power,
                   !.cadence = IF s.cadence = 0 THEN s.base_cadence * 100
                               ELSE s.cadence]

\* update_power clearing erg_mode_enabled without line 842
UpdatePowerKeepsTarget(s, new_power, variance_level) ==
    IF new_power < 0 \/ new_power > MaxPowerW THEN s
    ELSE IF new_power = 0 THEN stop_power(s)
    ELSE LET lvl == IF variance_level # ""
                       /\ variance_level \in DOMAIN VARIANCE_LEVELS
                    THEN [s EXCEPT
                            !.power_variance_level = variance_level,
                            !.power_variance_percent =
                                VARIANCE_LEVELS[variance_level]]
                    ELSE s
         IN [lvl EXCEPT !.erg_mode_enabled = FALSE,
                        !.is_stopped = FALSE,
                        !.power = new_power * 100,
                        !.base_power = new_power,
                        !.cadence = IF lvl.cadence = 0
                                    THEN lvl.base_cadence * 100
                                    ELSE lvl.cadence]

\* variance_level is "" for an absent third argument (None)
update_power(s, new_power, variance_level) ==
    IF new_power < 0 \/ new_power > MaxPowerW THEN s
    ELSE IF new_power = 0 THEN stop_power(s)
    ELSE LET lvl == IF variance_level # ""
                       /\ variance_level \in DOMAIN VARIANCE_LEVELS
                    THEN [s EXCEPT
                            !.power_variance_level = variance_level,
                            !.power_variance_percent =
                                VARIANCE_LEVELS[variance_level]]
                    ELSE s
             man == IF lvl.erg_mode_enabled
                    THEN [lvl EXCEPT !.erg_mode_enabled = FALSE,
                                     !.target_power = 0]
                    ELSE lvl
         IN [man EXCEPT !.is_stopped = FALSE,
                        !.power = new_power * 100,
                        !.base_power = new_power,
                        !.cadence = IF man.cadence = 0
                                    THEN man.base_cadence * 100
                                    ELSE man.cadence]

(***************************************************************************)
(* Operator console.  A line is the sequence of its whitespace-separated   *)
(* tokens after strip() and lower(): the verb and the variance level are   *)
(* strings, the watts token is the sequence of its characters.             *)
(***************************************************************************)
DigitValue ==
    [c \in {"0", "1", "2", "3", "4", "5", "6", "7", "8", "9"} |->
        CASE c = "0" -> 0 [] c = "1" -> 1 [] c = "2" -> 2 [] c = "3" -> 3
          [] c = "4" -> 4 [] c = "5" -> 5 [] c = "6" -> 6 [] c = "7" -> 7
          [] c = "8" -> 8 [] c = "9" -> 9]

RECURSIVE DigitsValue(_, _)
\* the value of a run of decimal digits, acc the value of those read so far
DigitsValue(chars, acc) ==
    IF Len(chars) = 0 THEN acc
    ELSE DigitsValue(Tail(chars), acc * 10 + DigitValue[Head(chars)])

\* int(token): an optional sign and at least one digit, else ValueError
ParseInt(token) ==
    LET signed == Len(token) > 0 /\ Head(token) \in {"-", "+"}
        digits == IF signed THEN Tail(token) ELSE token
        wellFormed == /\ Len(digits) > 0
                      /\ \A i \in 1..Len(digits) :
                            digits[i] \in DOMAIN DigitValue
    IN IF ~wellFormed THEN [ok |-> FALSE, v |-> 0]
       ELSE [ok |-> TRUE,
             v |-> IF signed /\ Head(token) = "-"
                   THEN -DigitsValue(digits, 0)
                   ELSE DigitsValue(digits, 0)]

\* what one pass of the input loop did: the state it left, the command it
\* called (op) and the arguments it passed
Entered(s, op, watts, level) ==
    [st |-> s, op |-> op, watts |-> watts, level |-> level]

_keyboard_input_handler(s, line) ==
    IF Len(line) = 1 /\ line[1] \in {"s", "start"}
    THEN Entered(start_power(s), "start", 0, "")
    ELSE IF Len(line) >= 2 /\ line[1] = "u"
    THEN LET watts == ParseInt(line[2])
             variance_level == IF Len(line) > 2 THEN line[3] ELSE ""
         IN IF watts.ok
            THEN Entered(update_power(s, watts.v, variance_level),
                         "update", watts.v, variance_level)
            ELSE Entered(s, "rejected", 0, "")
    ELSE IF Len(line) = 1 /\ line[1] = "stop"
    THEN Entered(stop_power(s), "stop", 0, "")
    ELSE Entered(s, "rejected", 0, "")

(***************************************************************************)
(* Physics speed solver.  fsolve is a library call: what it returns is an  *)
(* input of the model, one of                                              *)
(*   [kind |-> "root", v |-> a velocity >= 0 in cm/s]                      *)
(*   [kind |-> "negative"]   a root below 0                                *)
(*   [kind |-> "raise"]      an exception out of the try block             *)
(***************************************************************************)
\* converged roots: 0, 17 m/s (61.2 km/h), above the 150 km/h cap
RootSamples == {0, 1700, 4200}

SolverOutcomes ==
    {[kind |-> "root", v |-> v] : v \in RootSamples}
        \cup {[kind |-> "negative", v |-> -1], [kind |-> "raise", v |-> 0]}

RECURSIVE SqrtSearch(_, _, _)
SqrtSearch(n, lo, hi) ==
    IF lo >= hi THEN lo
    ELSE LET mid == (lo + hi + 1) \div 2
         IN IF mid * mid <= n THEN SqrtSearch(n, mid, hi)
                              ELSE SqrtSearch(n, lo, mid - 1)

\* math.sqrt on a fixed-point argument, rounded down
Sqrt(n) == SqrtSearch(n, 0, 4000)

\* The estimate that replaces a negative root, in cm/s
NegativeRootEstimate(pw, grade) ==
    IF grade < 0 /\ pw > 0
    THEN Max(800, Sqrt(Abs(grade) * 100) * 8 + Sqrt(pw * 5))
    ELSE IF grade < 0
    THEN Max(500, Sqrt(Abs(grade) * 100) * 8)
    ELSE Max(10, pw \div 100)

\* The except branch: not clamped
SolverFallback(pw, grade) ==
    IF pw > 0 THEN 1500 + pw \div 10
    ELSE IF grade < 0 THEN Abs(grade) * 7
    ELSE 0

_calculate_bike_speed(pw, grade, wind, outcome) ==
    IF outcome.kind = "raise" THEN SolverFallback(pw, grade)
    ELSE LET v_solution == IF outcome.kind = "negative"
                           THEN NegativeRootEstimate(pw, grade)
                           ELSE outcome.v
             speed_kmh == (v_solution * 36) \div 10
         IN Max(0, Min(MaxSpeedKmh * 100, speed_kmh))

(***************************************************************************)
(* Simulation tick                                                         *)
(***************************************************************************)
\* random.uniform(-amount, amount) at sample point k
Uniform(amount, k) == (amount * k) \div JitterDen

_check_can_enter_super_tuck(s) ==
    /\ s.speed >= super_tuck_speed_threshold
    /\ s.current_grade <= super_tuck_grade_threshold_entry

\* The exit test with the grade threshold of the entry test
ShouldExitAboveEntryGrade(s) ==
    \/ s.speed < super_tuck_speed_threshold
    \/ s.current_grade > super_tuck_grade_threshold_entry

_check_should_exit_super_tuck(s) ==
    \/ s.speed < super_tuck_speed_threshold
    \/ s.current_grade >= super_tuck_grade_threshold_exit

\* lines 685-690
StoppedRuleKeepsValues(s) == [s EXCEPT !.is_super_tuck = FALSE]

StoppedRule(s) ==
    [s EXCEPT !.power = 0, !.cadence = 0, !.speed = 0,
              !.is_super_tuck = FALSE]

\* lines 697-716
\* The ERG rule without the 1 W minimum of lines 707-708
ErgRuleWithoutFloor(s, jp, jc) ==
    LET variance_amount == s.target_power * ErgVariancePercent
        jittered == s.target_power * 100 + Uniform(variance_amount, jp)
    IN [s EXCEPT
          !.power = Max(0, Min(MaxPowerW * 100, jittered)),
          !.cadence = s.base_cadence * 100
                        + Uniform(cadence_variation * 100, jc),
          !.is_super_tuck = FALSE]

ErgRule(s, jp, jc) ==
    LET variance_amount == s.target_power * ErgVariancePercent
        jittered == s.target_power * 100 + Uniform(variance_amount, jp)
        clamped == Max(0, Min(MaxPowerW * 100, jittered))
    IN [s EXCEPT
          !.power = IF s.target_power > 0 /\ clamped < 100
                    THEN 100 ELSE clamped,
          !.cadence = s.base_cadence * 100
                        + Uniform(cadence_variation * 100, jc),
          !.is_super_tuck = FALSE]

\* lines 717-723.  The speed assigned on line 721 is overwritten on lines
\* 748-758 before anything reads it.
\* The Exact rule taking the operator's base_power as its power
ExactRuleFromBasePower(s) ==
    [s EXCEPT !.power = s.base_power * 100,
              !.cadence = s.base_cadence * 100,
              !.is_super_tuck = FALSE]

ExactRule(s) ==
    [s EXCEPT !.power = s.target_power * 100,
              !.cadence = s.base_cadence * 100,
              !.is_super_tuck = FALSE]

\* lines 724-741; grade_multiplier = 1 + 4 * grade / 100
\* The Normal rule with grade_multiplier = 1
NormalRuleIgnoresGrade(s, jp, jc) ==
    LET effective_base_power == s.base_power * 100
        variance_amount ==
            (effective_base_power * s.power_variance_percent) \div 100
    IN [s EXCEPT
          !.is_super_tuck = IF s.erg_mode_enabled /\ s.is_super_tuck
                            THEN FALSE ELSE s.is_super_tuck,
          !.power = IF s.base_power > 0
                    THEN effective_base_power + Uniform(variance_amount, jp)
                    ELSE 0,
          !.cadence = s.base_cadence * 100
                        + Uniform(cadence_variation * 100, jc)]

NormalRule(s, jp, jc) ==
    LET effective_base_power ==
            (s.base_power * (10000 + 4 * s.current_grade)) \div 100
        variance_amount ==
            (effective_base_power * s.power_variance_percent) \div 100
    IN [s EXCEPT
          !.is_super_tuck = IF s.erg_mode_enabled /\ s.is_super_tuck
                            THEN FALSE ELSE s.is_super_tuck,
          !.power = IF s.base_power > 0
                    THEN effective_base_power + Uniform(variance_amount, jp)
                    ELSE 0,
          !.cadence = s.base_cadence * 100
                        + Uniform(cadence_variation * 100, jc)]

\* The choice of lines 697-724 without the branch for the Exact level
PowerRuleWithoutExact(s, jp, jc) ==
    IF s.erg_mode_enabled /\ s.target_power > 0 THEN ErgRule(s, jp, jc)
    ELSE NormalRule(s, jp, jc)

PowerRule(s, jp, jc) ==
    IF s.erg_mode_enabled /\ s.target_power > 0 THEN ErgRule(s, jp, jc)
    ELSE IF s.power_variance_level = "exact" THEN ExactRule(s)
    ELSE NormalRule(s, jp, jc)

\* lines 744-745
ClampRanges(s) ==
    [s EXCEPT !.power = Max(0, Min(MaxPowerW * 100, s.power)),
              !.cadence = Max(0, Min(MaxCadenceRpm * 100, s.cadence))]

\* lines 748-760
\* Lines 748-760 without the assignments of self.speed
SpeedFromPowerKeepsSpeed(s, outcome) == s

SpeedFromPower(s, outcome) ==
    IF s.power > 0
    THEN LET calculated_speed ==
                 _calculate_bike_speed(s.power, s.current_grade,
                                       s.current_wind_speed, outcome)
         IN [s EXCEPT !.speed = IF calculated_speed > 0
                                THEN calculated_speed
                                ELSE 1500 + s.power \div 10]
    ELSE [s EXCEPT !.speed = 0]

\* lines 775-781 and 792-798
Coast(s, outcome) ==
    LET coasting == _calculate_bike_speed(0, s.current_grade,
                                          s.current_wind_speed, outcome)
    IN [s EXCEPT !.power = 0, !.cadence = 0, !.speed = coasting]

\* lines 764-798
SuperTuckCheck(s, outcome) ==
    IF s.erg_mode_enabled THEN s
    ELSE IF s.is_super_tuck
    THEN IF _check_should_exit_super_tuck(s)
         THEN [s EXCEPT !.base_power = s.pre_super_tuck_base_power,
                        !.is_super_tuck = FALSE]
         ELSE Coast(s, outcome)
    ELSE IF _check_can_enter_super_tuck(s)
    THEN Coast([s EXCEPT !.pre_super_tuck_base_power = s.base_power,
                         !.is_super_tuck = TRUE],
               outcome)
    ELSE s

(***************************************************************************)
(* Telemetry records.  An encoder returns the packed bytes, or raises      *)
(* struct.error (ok = FALSE) when a field does not fit its format.         *)
(***************************************************************************)
INDOOR_BIKE_DATA_UUID == "00002ad2-0000-1000-8000-00805f9b34fb"
CYCLING_POWER_SERVICE_UUID == "00001818-0000-1000-8000-00805f9b34fb"
CYCLING_POWER_MEASUREMENT_UUID == "00002a63-0000-1000-8000-00805f9b34fb"

\* int(x) of the float n / d: rounds toward zero
Trunc(n, d) == IF n >= 0 THEN n \div d ELSE -((-n) \div d)

\* struct.pack('<H', n)
PackUint16(n) == <<n % 256, n \div 256>>

\* struct.pack('<h', n)
PackInt16(n) == PackUint16(IF n < 0 THEN n + 65536 ELSE n)

\* struct.pack accepts n for format H / h
FitsUint16(n) == 0 <= n /\ n <= 65535
FitsInt16(n) == -32768 <= n /\ n <= 32767

\* flags = 0b0000010001000100 on line 378
IndoorBikeDataFlags == 1092

\* The encoder that packs the power field as 0 W
EncodeIndoorBikeDataWithoutPower(s) ==
    LET speed_uint16 == Trunc(s.speed * 100, 100)
        cadence_uint16 == Trunc(s.cadence * 2, 100)
        power_sint16 == Trunc(s.power, 100)
    IN [ok |-> FitsUint16(speed_uint16) /\ FitsUint16(cadence_uint16)
                 /\ FitsInt16(power_sint16),
        data |-> PackUint16(IndoorBikeDataFlags) \o PackUint16(speed_uint16)
                   \o PackUint16(cadence_uint16) \o PackInt16(0)]

_encode_indoor_bike_data(s) ==
    LET speed_uint16 == Trunc(s.speed * 100, 100)
        cadence_uint16 == Trunc(s.cadence * 2, 100)
        power_sint16 == Trunc(s.power, 100)
    IN [ok |-> FitsUint16(speed_uint16) /\ FitsUint16(cadence_uint16)
                 /\ FitsInt16(power_sint16),
        data |-> PackUint16(IndoorBikeDataFlags) \o PackUint16(speed_uint16)
                   \o PackUint16(cadence_uint16) \o PackInt16(power_sint16)]

_encode_cycling_power_measurement(s) ==
    LET flags == 0
        power_sint16 == Trunc(s.power, 100)
    IN [ok |-> FitsInt16(power_sint16),
        data |-> PackUint16(flags) \o PackInt16(power_sint16)]

\* update_loop before its first pass.  pc is the statement the loop runs
\* next; ticked (the power, cadence and speed the pass's tick produced),
\* raised (this pass went through the except branch) and failed (the pass
\* before this one did) record history.
LoopStart ==
    [pc |-> "simulate", bike_data |-> << >>, power_data |-> << >>,
     ticked |-> << >>, raised |-> FALSE, failed |-> FALSE]

\* setup_gatt_server gives both characteristics the encoders' output
InitialValues(s) ==
    [bike |-> _encode_indoor_bike_data(s).data,
     powerm |-> _encode_cycling_power_measurement(s).data]

(***************************************************************************)
(* Inputs                                                                  *)
(***************************************************************************)
\* The two bytes a client sends for the int16 n (little-endian)
Int16Bytes(n) ==
    LET u == IF n < 0 THEN n + 65536 ELSE n IN <<u % 256, u \div 256>>

TargetPowerFrame(watts) == <<5>> \o Int16Bytes(watts)

\* wind in mm/s, grade in 1/100 %, then the crr and cw bytes
SimulationFrame(wind, grade) ==
    <<17>> \o Int16Bytes(wind) \o Int16Bytes(grade) \o <<40, 51>>

ControlPoints ==
    {FITNESS_MACHINE_CONTROL_POINT_UUID, CYCLING_POWER_CONTROL_POINT_UUID}

\* Inputs of Spec: the commands that bear on the simulation
TargetInputs == {0, 2000}
SimInputs == {<<0, 0>>, <<0, -250>>, <<-1500, -405>>}
Frames ==
    {<<1>>, <<17>>}
        \cup {TargetPowerFrame(t) : t \in TargetInputs}
        \cup {SimulationFrame(p[1], p[2]) : p \in SimInputs}
\* operator lines 'u <watts> [variance]'; "" is an absent variance
UpdateInputs == {<<0, "">>, <<200, "">>, <<200, "exact">>}

\* Inputs of SpecProtocol: every opcode, complete, truncated and over-long
\* frames, on both control points
ProtocolTargetInputs == {-1, 0, 200}
ProtocolSimInputs == {<<2000, 478>>, <<-1500, -405>>}
\* Set Target Resistance payload byte: -10
ResistanceInputs == {246}
CompleteFrames ==
    {<<0>>, <<1>>, <<7>>, <<8>>, <<153>>, <<153, 1, 2>>}
        \cup {<<4, b>> : b \in ResistanceInputs}
        \cup {TargetPowerFrame(t) : t \in ProtocolTargetInputs}
        \cup {TargetPowerFrame(200) \o <<9>>}
        \cup {SimulationFrame(p[1], p[2]) : p \in ProtocolSimInputs}
TruncatedFrames ==
    {<<4>>, <<5>>, <<5, 200>>, <<17>>, <<17, 0, 0, 0, 0, 0>>}
ProtocolFrames == {<< >>} \cup CompleteFrames \cup TruncatedFrames
ProtocolUpdateInputs == {<<200, "">>}
\* in SpecProtocol the solver always converges, to a root above the cap
ConvergedOutcomes == {[kind |-> "root", v |-> 4200]}

\* Inputs of SpecOperator: the lines the operator types, well-formed and
\* malformed, with a Reset, a Set Target Power above the range and a descent
WattsTokens ==
    {<<"1">>, <<"2", "0", "0">>, <<"2", "0", "0", "0">>, <<"0">>,
     <<"2", "0", "0", "1">>, <<"-", "1">>, <<"a", "b", "c">>,
     <<"2", "0", ".", "5">>}
OperatorLines ==
    {<< >>, <<"s">>, <<"start">>, <<"stop">>, <<"u">>, <<"xyz">>}
        \cup {<<"u", w>> : w \in WattsTokens}
        \cup {<<"update", <<"2", "0", "0">>>>}
        \cup {<<"u", <<"2", "0", "0">>, l>> : l \in {"exact", "bogus"}}
        \cup {<<"u", <<"2", "0", "0", "1">>, "exact">>}
OperatorFrames ==
    {<<1>>, TargetPowerFrame(2500), SimulationFrame(-1500, -405)}

(***************************************************************************)
(* State machine                                                           *)
(***************************************************************************)
Did(op, char, data, watts, level, calls) ==
    [op |-> op, char |-> char, data |-> data, watts |-> watts,
     level |-> level, calls |-> calls]

\* VirtualTrainer.__init__, then main()'s two assignments
Init ==
    /\ power = 0
    /\ cadence = 0
    /\ speed = 0
    /\ target_resistance = 0
    /\ is_running = FALSE
    /\ base_power \in PowerArgs
    /\ base_cadence \in CadenceArgs
    /\ power_variance_level = "standard"
    /\ power_variance_percent = VARIANCE_LEVELS["standard"]
    /\ erg_mode_enabled = FALSE
    /\ target_power = 0
    /\ current_grade = 0
    /\ current_wind_speed = 0
    /\ is_stopped = TRUE
    /\ is_super_tuck = FALSE
    /\ pre_super_tuck_base_power = 0
    /\ physics = [rider_weight |-> rider_weight, cda |-> cda,
                  crr |-> crr, rho |-> rho]
    /\ last = Did("init", "", << >>, 0, "", << >>)
    /\ loop = LoopStart
    /\ held = InitialValues(self)

\* The transport delivers a write of one of the frames to one of the
\* characteristics
Write(characteristics, frames) ==
    \E characteristic \in characteristics, value \in frames :
        LET r == write_handler(self, characteristic, value)
        IN /\ Becomes(r.st)
           /\ last' = Did("write", characteristic, value, 0, "", r.calls)
           /\ UNCHANGED loopVars

\* The draws and solver calls a tick makes depend on the path it takes; a
\* draw or call that is not made has the single value NotDrawn / NotCalled.
NotDrawn == {0}
NotCalled == {[kind |-> "none", v |-> 0]}

\* random.uniform on line 704 or 736
PowerDraws(s) ==
    IF s.erg_mode_enabled /\ s.target_power > 0 THEN JitterSteps
    ELSE IF s.power_variance_level = "exact" THEN NotDrawn
    ELSE IF s.base_power > 0 THEN JitterSteps
    ELSE NotDrawn

\* random.uniform on line 711 or 741
CadenceDraws(s) ==
    IF s.erg_mode_enabled /\ s.target_power > 0 THEN JitterSteps
    ELSE IF s.power_variance_level = "exact" THEN NotDrawn
    ELSE JitterSteps

\* lines 764-798 reach one of the two calls of the solver with power 0
Coasts(s) ==
    /\ ~s.erg_mode_enabled
    /\ \/ s.is_super_tuck /\ ~_check_should_exit_super_tuck(s)
       \/ ~s.is_super_tuck /\ _check_can_enter_super_tuck(s)

\* simulate_realistic_data, as update_loop runs it once per period; the
\* solver answers each call with one of the outcomes
TickWith(outcomes) ==
    LET s == self IN
    IF s.is_stopped
    THEN /\ Becomes(StoppedRule(s))
         /\ last' = Did("tick", "", << >>, 0, "", << >>)
         /\ UNCHANGED loopVars
    ELSE \E jp \in PowerDraws(s), jc \in CadenceDraws(s) :
           LET a == ClampRanges(PowerRule(s, jp, jc)) IN
           \E o1 \in (IF a.power > 0 THEN outcomes ELSE NotCalled) :
             LET b == SpeedFromPower(a, o1) IN
             \E o2 \in (IF Coasts(b) THEN outcomes ELSE NotCalled) :
               /\ Becomes(SuperTuckCheck(b, o2))
               /\ last' = Did("tick", "", << >>, 0, "", << >>)
               /\ UNCHANGED loopVars

\* Operator line 'u <watts> [variance]'
Update(inputs) ==
    \E u \in inputs :
        /\ Becomes(update_power(self, u[1], u[2]))
        /\ last' = Did("update", "", << >>, u[1], u[2], << >>)
        /\ UNCHANGED loopVars

\* Operator line 's' / 'start'
OperatorStart ==
    /\ Becomes(start_power(self))
    /\ last' = Did("start", "", << >>, 0, "", << >>)
    /\ UNCHANGED loopVars

\* Operator line 'stop'
OperatorStop ==
    /\ Becomes(stop_power(self))
    /\ last' = Did("stop", "", << >>, 0, "", << >>)
    /\ UNCHANGED loopVars

\* One pass of the loop of _keyboard_input_handler over a line read from
\* the console
KeyboardLine(lines) ==
    \E line \in lines :
        LET r == _keyboard_input_handler(self, line)
        IN /\ Becomes(r.st)
           /\ last' = Did(r.op, "", line, r.watts, r.level, << >>)
           /\ UNCHANGED loopVars

ControlPointWrite == Write({FITNESS_MACHINE_CONTROL_POINT_UUID}, Frames)
Tick == TickWith(SolverOutcomes)
OperatorUpdate == Update(UpdateInputs)

Next ==
    \/ ControlPointWrite
    \/ Tick
    \/ OperatorStart
    \/ OperatorUpdate
    \/ OperatorStop

Spec == Init /\ [][Next]_vars

ProtocolWrite == Write(ControlPoints, ProtocolFrames)
ProtocolTick == TickWith(ConvergedOutcomes)
ProtocolUpdate == Update(ProtocolUpdateInputs)

ProtocolNext ==
    \/ ProtocolWrite
    \/ ProtocolTick
    \/ OperatorStart
    \/ ProtocolUpdate
    \/ OperatorStop

SpecProtocol == Init /\ [][ProtocolNext]_vars

OperatorWrite == Write({FITNESS_MACHINE_CONTROL_POINT_UUID}, OperatorFrames)
OperatorTick == TickWith(ConvergedOutcomes)
OperatorLine == KeyboardLine(OperatorLines)

OperatorNext ==
    \/ OperatorWrite
    \/ OperatorTick
    \/ OperatorLine

SpecOperator == Init /\ [][OperatorNext]_vars

(***************************************************************************)
(* The root fsolve converges to.  equation(v) of lines 594-611 in          *)
(* fixed point: v in cm/s, forces in 1/100 N, the result in 1/10000 W.     *)
(***************************************************************************)
\* No root is looked for above 60 m/s; 150 km/h, the cap, is 41.67 m/s
MaxRoot == 6000

equation(v, pw, grade, wind) ==
    LET hyp == SqrtSearch(100000000 + grade * grade, 0, 20000)
        vw == v + wind \div 10
        faero == (((vw * vw) \div 100) * ((rho * cda) \div 200)) \div 10000
        froll == (crr * rider_weight * 981 * 10) \div hyp
        fgrav == (rider_weight * 981 * grade) \div hyp
        net_force == faero + froll + fgrav
    IN net_force * v - pw * 100

\* The largest v for which equation(v) <= 0: with pw >= 0 the equation is
\* <= 0 from 0 up to its root and > 0 above it
RECURSIVE RootSearch(_, _, _, _, _)
RootSearch(pw, grade, wind, lo, hi) ==
    IF lo >= hi THEN lo
    ELSE LET mid == (lo + hi + 1) \div 2
         IN IF equation(mid, pw, grade, wind) <= 0
            THEN RootSearch(pw, grade, wind, mid, hi)
            ELSE RootSearch(pw, grade, wind, lo, mid - 1)

PhysicsRoot(pw, grade, wind) == RootSearch(pw, grade, wind, 0, MaxRoot)

\* Answers of fsolve that take a tick through the fallback of line 756, to
\* either side of the super tuck threshold and through the except branch
TickOutcomes ==
    {[kind |-> "root", v |-> v] : v \in RootSamples}
        \cup {[kind |-> "raise", v |-> 0]}

\* What fsolve answers to a call: under "converges" the root of the
\* equation; under "capped" the sampled root above the cap; under "either"
\* one of TickOutcomes
SolverAnswers(solver, pw, grade, wind) ==
    IF solver = "converges"
    THEN {[kind |-> "root", v |-> PhysicsRoot(pw, grade, wind)]}
    ELSE IF solver = "capped" THEN ConvergedOutcomes
    ELSE TickOutcomes

\* One call of _calculate_bike_speed as the tick's record keeps it
Solved(pw, s, outcome) ==
    [call |-> "_calculate_bike_speed", power |-> pw, kind |-> outcome.kind,
     speed |-> _calculate_bike_speed(pw, s.current_grade,
                                     s.current_wind_speed, outcome)]

\* The end of a non-stopped tick of s: u is the trainer after the power
\* rule, a after the clamp, b after lines 748-758, o1 and o2 the solver's
\* answers.  data is <<power before the clamp, speed on line 760,
\* is_super_tuck and base_power when the tick started, cadence before the
\* clamp>>.
Ticked(s, u, a, o1, b, o2) ==
    [st |-> SuperTuckCheck(b, o2),
     data |-> <<u.power, b.speed, s.is_super_tuck, s.base_power, u.cadence>>,
     calls |-> (IF a.power > 0 THEN <<Solved(a.power, a, o1)>> ELSE << >>)
                 \o (IF Coasts(b) THEN <<Solved(0, b, o2)>> ELSE << >>)]

\* simulate_realistic_data: every trainer a tick of s can end in, with the
\* tick's intermediate values and its calls of the solver
simulate_realistic_data(s, solver) ==
    IF s.is_stopped
    THEN {[st |-> StoppedRule(s), data |-> << >>, calls |-> << >>]}
    ELSE UNION { UNION { UNION { { Ticked(s, u, a, o1, b, o2) :
                                     o2 \in (IF Coasts(b)
                                             THEN SolverAnswers(solver, 0,
                                                    b.current_grade,
                                                    b.current_wind_speed)
                                             ELSE NotCalled) } :
                                 b \in {SpeedFromPower(a, o1)} } :
                         o1 \in (IF a.power > 0
                                 THEN SolverAnswers(solver, a.power,
                                        a.current_grade,
                                        a.current_wind_speed)
                                 ELSE NotCalled) } :
                 <<u, a>> \in { <<PowerRule(s, d[1], d[2]),
                                  ClampRanges(PowerRule(s, d[1], d[2]))>> :
                                d \in PowerDraws(s) \X CadenceDraws(s) } }

(***************************************************************************)
(* update_loop, statement by statement.  The operator's thread (started on *)
(* line 973) runs between any two of the loop's statements.                *)
(***************************************************************************)
\* What a pair of calls to the server does: both return, the assignment of
\* the value raises, or update_value raises
TransportOutcomes == {"ok", "set_raises", "notify_raises"}

\* lines 925-930 and 936-941: the value is set, then the notification is
\* requested
SendTelemetry(service, char, value) ==
    <<[call |-> "set_value", char |-> char, value |-> value],
      [call |-> "update_value", service |-> service, char |-> char]>>

\* The calls that were made when the transport answers with the outcome
Delivered(calls, outcome) ==
    IF calls = << >> \/ outcome = "ok" THEN calls
    ELSE IF outcome = "set_raises"
    THEN <<[call |-> "raise", at |-> "set_value", char |-> calls[1].char]>>
    ELSE <<calls[1],
           [call |-> "raise", at |-> "update_value", char |-> calls[1].char]>>

\* An update loop without the except branch: the exception ends the loop
ExceptBranchMissing(l) == [l EXCEPT !.pc = "ended", !.raised = TRUE]

\* lines 951-953: the exception is logged and the pass ends in the sleep
ExceptBranch(l) == [l EXCEPT !.pc = "sleep", !.raised = TRUE]

\* line 916
LoopSimulate(solver) ==
    /\ loop.pc = "simulate"
    /\ \E r \in simulate_realistic_data(self, solver) :
         /\ Becomes(r.st)
         /\ loop' = [loop EXCEPT !.pc = "encode_bike",
                                 !.ticked = <<r.st.power, r.st.cadence,
                                              r.st.speed>>]
         /\ last' = Did("tick", "", r.data, 0, "", r.calls)
    /\ UNCHANGED held

\* line 919
LoopEncodeBike ==
    /\ loop.pc = "encode_bike"
    /\ LET e == _encode_indoor_bike_data(self)
       IN /\ loop' = IF e.ok
                     THEN [loop EXCEPT !.pc = "publish_bike",
                                       !.bike_data = e.data]
                     ELSE ExceptBranch(loop)
          /\ last' = Did("encode", INDOOR_BIKE_DATA_UUID, e.data, 0, "",
                         << >>)
    /\ UNCHANGED <<trainerVars, held>>

\* lines 921-930
LoopPublishBike ==
    /\ loop.pc = "publish_bike"
    /\ \E outcome \in TransportOutcomes :
         /\ held' = IF outcome = "set_raises" THEN held
                    ELSE [held EXCEPT !.bike = loop.bike_data]
         /\ loop' = IF outcome = "ok"
                    THEN [loop EXCEPT !.pc = "encode_power"]
                    ELSE ExceptBranch(loop)
         /\ last' = Did("publish", INDOOR_BIKE_DATA_UUID, loop.bike_data,
                        0, "",
                        Delivered(SendTelemetry(FTMS_SERVICE_UUID,
                                                INDOOR_BIKE_DATA_UUID,
                                                loop.bike_data),
                                  outcome))
    /\ UNCHANGED trainerVars

\* line 933
LoopEncodePower ==
    /\ loop.pc = "encode_power"
    /\ LET e == _encode_cycling_power_measurement(self)
       IN /\ loop' = IF e.ok
                     THEN [loop EXCEPT !.pc = "publish_power",
                                       !.power_data = e.data]
                     ELSE ExceptBranch(loop)
          /\ last' = Did("encode", CYCLING_POWER_MEASUREMENT_UUID, e.data,
                         0, "", << >>)
    /\ UNCHANGED <<trainerVars, held>>

\* lines 935-945
LoopPublishPower ==
    /\ loop.pc = "publish_power"
    /\ \E outcome \in TransportOutcomes :
         /\ held' = IF outcome = "set_raises" THEN held
                    ELSE [held EXCEPT !.powerm = loop.power_data]
         /\ loop' = IF outcome = "ok"
                    THEN [loop EXCEPT !.pc = "sleep"]
                    ELSE ExceptBranch(loop)
         /\ last' = Did("publish", CYCLING_POWER_MEASUREMENT_UUID,
                        loop.power_data, 0, "",
                        Delivered(SendTelemetry(CYCLING_POWER_SERVICE_UUID,
                                                CYCLING_POWER_MEASUREMENT_UUID,
                                                loop.power_data),
                                  outcome))
    /\ UNCHANGED trainerVars

\* lines 948 and 953: after the sleep the next pass starts; bike_data and
\* power_data are dead until that pass assigns them
LoopSleep ==
    /\ loop.pc = "sleep"
    /\ loop' = [loop EXCEPT !.pc = "simulate", !.bike_data = << >>,
                            !.power_data = << >>, !.ticked = << >>,
                            !.raised = FALSE, !.failed = loop.raised]
    /\ last' = Did("sleep", "", << >>, 0, "", << >>)
    /\ UNCHANGED <<trainerVars, held>>

\* A write to the control point, delivered while update_loop awaits its
\* sleep, whose response meets the transport outcome;
\* _send_control_point_response catches the exception (lines 533-534)
WriteOver(frames) ==
    \E value \in frames, outcome \in TransportOutcomes :
        LET r == write_handler(self, FITNESS_MACHINE_CONTROL_POINT_UUID,
                               value)
        IN /\ loop.pc = "sleep"
           /\ Becomes(r.st)
           /\ last' = Did("write", FITNESS_MACHINE_CONTROL_POINT_UUID, value,
                          0, "", Delivered(r.calls, outcome))
           /\ UNCHANGED loopVars

LoopFrames == {<<0>>}
PublishUpdateInputs == {<<150, "">>}

LoopTick == LoopSimulate("capped")
LoopWrite == WriteOver(LoopFrames)

\* The statements of update_loop
LoopStep ==
    \/ LoopTick
    \/ LoopEncodeBike
    \/ LoopPublishBike
    \/ LoopEncodePower
    \/ LoopPublishPower
    \/ LoopSleep

LoopNext ==
    \/ LoopStep
    \/ LoopWrite
    \/ OperatorStart
    \/ OperatorStop

\* The event loop resumes update_loop whenever it can take a step
SpecLoop == Init /\ [][LoopNext]_vars /\ WF_vars(LoopStep)

PublishUpdate == Update(PublishUpdateInputs)

PublishNext ==
    \/ LoopStep
    \/ PublishUpdate
    \/ OperatorStop

SpecPublish == Init /\ [][PublishNext]_vars

(***************************************************************************)
(* The tick with its intermediate values on record, under the commands     *)
(* that put the trainer on each path of simulate_realistic_data.           *)
(***************************************************************************)
SimulationTick(solver) ==
    \E r \in simulate_realistic_data(self, solver) :
        /\ Becomes(r.st)
        /\ last' = Did("tick", "", r.data, 0, "", r.calls)
        /\ UNCHANGED loopVars

\* <<wind in mm/s, grade in 1/100 % as sent>>: the grade is stored as
\* -8.0 %, -5.0 %, -3.0 % and -26 %
TickSimInputs == {<<0, -400>>, <<0, -250>>, <<0, -150>>, <<0, -1300>>}
TickTargetInputs == {1, 2000}
TickFrames ==
    {TargetPowerFrame(w) : w \in TickTargetInputs}
        \cup {SimulationFrame(i[1], i[2]) : i \in TickSimInputs}
TickUpdateInputs == {<<200, "">>, <<200, "exact">>}

TickWrite == Write({FITNESS_MACHINE_CONTROL_POINT_UUID}, TickFrames)
TickTick == SimulationTick("either")
TickUpdate == Update(TickUpdateInputs)

TickNext ==
    \/ TickWrite
    \/ TickTick
    \/ TickUpdate
    \/ OperatorStart
    \/ OperatorStop

SpecTick == Init /\ [][TickNext]_vars

(***************************************************************************)
(* The descent on which the rider's power decides the side of the super    *)
(* tuck threshold: -8.1 % with a tailwind of 0.3 m/s, where fsolve         *)
(* converges to 69.0 km/h at 101.4 W and to 70.7 km/h at 169 W.            *)
(***************************************************************************)
CoastFrames == {SimulationFrame(-300, -405)}
CoastUpdateInputs == {<<200, "">>, <<150, "">>}

CoastWrite == Write({FITNESS_MACHINE_CONTROL_POINT_UUID}, CoastFrames)
CoastTick == SimulationTick("converges")
CoastUpdate == Update(CoastUpdateInputs)

CoastNext ==
    \/ CoastWrite
    \/ CoastTick
    \/ CoastUpdate
    \/ OperatorStop

SpecCoast == Init /\ [][CoastNext]_vars

(***************************************************************************)
(* The tick in three steps.  The operator's thread (line 973) is a thread  *)
(* of its own and takes no lock: its stop_power and update_power run       *)
(* between the test of is_stopped (line 685), the power rule (lines        *)
(* 694-745) and the speed and super tuck part (lines 748-798) of a tick.   *)
(***************************************************************************)
\* lines 685-690: a stopped trainer is zeroed and the tick returns
RaceStopped ==
    /\ loop.pc = "simulate"
    /\ IF is_stopped
       THEN /\ Becomes(StoppedRule(self))
            /\ loop' = [loop EXCEPT !.pc = "encode_bike",
                                    !.ticked = <<0, 0, 0>>]
            /\ last' = Did("tick", "", << >>, 0, "", << >>)
       ELSE /\ loop' = [loop EXCEPT !.pc = "power_rule"]
            /\ last' = Did("is_stopped", "", << >>, 0, "", << >>)
            /\ UNCHANGED trainerVars
    /\ UNCHANGED held

\* lines 694-745, on the trainer as it is when they run
RacePowerRule ==
    /\ loop.pc = "power_rule"
    /\ \E d \in PowerDraws(self) \X CadenceDraws(self) :
         Becomes(ClampRanges(PowerRule(self, d[1], d[2])))
    /\ loop' = [loop EXCEPT !.pc = "speed"]
    /\ last' = Did("power_rule", "", << >>, 0, "", << >>)
    /\ UNCHANGED held

\* lines 748-798; the tick's record starts at the trainer this step finds
RaceSpeed ==
    /\ loop.pc = "speed"
    /\ \E o1 \in (IF power > 0
                  THEN SolverAnswers("capped", power, current_grade,
                                     current_wind_speed)
                  ELSE NotCalled) :
         \E b \in {SpeedFromPower(self, o1)} :
           \E o2 \in (IF Coasts(b)
                      THEN SolverAnswers("capped", 0, b.current_grade,
                                         b.current_wind_speed)
                      ELSE NotCalled) :
             \E r \in {Ticked(self, self, self, o1, b, o2)} :
               /\ Becomes(r.st)
               /\ loop' = [loop EXCEPT !.pc = "encode_bike",
                                       !.ticked = <<r.st.power, r.st.cadence,
                                                    r.st.speed>>]
               /\ last' = Did("tick", "", r.data, 0, "", r.calls)
    /\ UNCHANGED held

RaceUpdateInputs == {<<200, "">>}
RaceUpdate == Update(RaceUpdateInputs)

\* The statements of update_loop, those of the tick apart
RaceStep ==
    \/ RaceStopped
    \/ RacePowerRule
    \/ RaceSpeed
    \/ LoopEncodeBike
    \/ LoopPublishBike
    \/ LoopEncodePower
    \/ LoopPublishPower
    \/ LoopSleep

RaceNext ==
    \/ RaceStep
    \/ RaceUpdate
    \/ OperatorStop

SpecRace == Init /\ [][RaceNext]_vars

(***************************************************************************)
(* Properties                                                              *)
(***************************************************************************)
AllZero == power = 0 /\ cadence = 0 /\ speed = 0

\* the payload of the frame is shorter than its opcode requires
IsTruncated(data) ==
    /\ Len(data) >= 1
    /\ \/ data[1] = 4 /\ Len(data) < 2
       \/ data[1] = 5 /\ Len(data) < 3
       \/ data[1] = 17 /\ Len(data) < 7

SupportedOpcodes == {0, 1, 4, 5, 7, 8, 17}

\* the indications among the transport calls of an operation
Indications(calls) == {i \in 1..Len(calls) : calls[i].call = "update_value"}
ValuesSet(calls) == {i \in 1..Len(calls) : calls[i].call = "set_value"}

\* C1: after every completed tick power is in [0,2000] W, cadence in
\* [0,200] rpm and speed in [0,150] km/h, whatever the solver did.
C1_TickKeepsRanges ==
    last.op = "tick" =>
        /\ 0 <= power /\ power <= MaxPowerW * 100
        /\ 0 <= cadence /\ cadence <= MaxCadenceRpm * 100
        /\ 0 <= speed /\ speed <= MaxSpeedKmh * 100

\* C2: stop leaves is_stopped with power = cadence = speed = 0; is_stopped
\* then stays true until a start or an update with watts > 0, whatever
\* control-point command arrives; and every tick taken while is_stopped
\* ends with power = cadence = speed = 0.
C2_StopPinsZero ==
    [][/\ (last'.op = "stop") => (is_stopped' /\ AllZero')
       /\ (is_stopped /\ last'.op # "start"
                      /\ ~(last'.op = "update" /\ last'.watts > 0))
             => is_stopped'
       /\ (is_stopped /\ last'.op = "tick") => AllZero']_vars

\* a tick that ran after a stop (the level "exact" is only set by an update
\* with watts > 0, which clears is_stopped), with an ERG target set by a
\* control-point command, and reported zeros
C2_Witness ==
    /\ last.op = "tick"
    /\ is_stopped
    /\ power_variance_level = "exact"
    /\ erg_mode_enabled
    /\ target_power > 0
    /\ AllZero

\* C3: in every reachable state is_stopped implies power = cadence =
\* speed = 0.
C3_StoppedImpliesZero == is_stopped => AllZero

\* C4: in every reachable state erg_mode_enabled implies not is_super_tuck.
C4_ErgExcludesSuperTuck == erg_mode_enabled => ~is_super_tuck

\* C5: in every reachable state is_super_tuck implies power = 0 and
\* cadence = 0.
C5_SuperTuckImpliesZero == is_super_tuck => (power = 0 /\ cadence = 0)

\* C6: a control-point frame with a truncated payload leaves every field of
\* the trainer unchanged.
C6_TruncatedFrameChangesNothing ==
    [][(last'.op = "write" /\ IsTruncated(last'.data))
          => UNCHANGED trainerVars]_vars

\* C7: a control-point write is answered by exactly one response when the
\* frame is a supported opcode with a complete payload or an unsupported
\* opcode, and by none when the frame is empty or truncated.
C7_OneResponsePerAcceptedCommand ==
    last.op = "write" =>
        /\ Cardinality(Indications(last.calls)) =
              (IF Len(last.data) = 0 \/ IsTruncated(last.data) THEN 0 ELSE 1)
        /\ Cardinality(ValuesSet(last.calls)) =
              Cardinality(Indications(last.calls))

\* a truncated Set Target Power frame was handled and nothing was sent
C7_Witness ==
    /\ last.op = "write"
    /\ last.data = <<5, 200>>
    /\ last.calls = << >>

\* C8: the response to a command is set and indicated on the control
\* point the command was written to.
C8_ResponseOnSameControlPoint ==
    last.op = "write" =>
        \A i \in 1..Len(last.calls) : last.calls[i].char = last.char

\* C9: Set Target Power with a complete payload carrying T sets
\* target_power = T and erg_mode_enabled; for T > 0 also power = T and
\* base_power = 0; for T <= 0 power = 0 and base_power is unchanged.
C9_SetTargetPowerEffect ==
    [][(last'.op = "write" /\ Len(last'.data) >= 3 /\ last'.data[1] = 5)
          => LET raw == last'.data[2] + 256 * last'.data[3]
                 T == IF raw < 32768 THEN raw ELSE raw - 65536
             IN /\ target_power' = T
                /\ erg_mode_enabled'
                /\ (T > 0) => (power' = T * 100 /\ base_power' = 0)
                /\ (T <= 0) => (power' = 0 /\ base_power' = base_power)]_vars

\* Set Target Power 0 was handled while the operator's base_power was 200
C9_Witness ==
    /\ last.op = "write"
    /\ last.data = <<5, 0, 0>>
    /\ erg_mode_enabled
    /\ target_power = 0
    /\ power = 0
    /\ base_power = 200

\* C10: the response to an accepted command with a supported opcode op is
\* the bytes 0x80, op, 0x01 and to any other opcode 0x80, op, 0x02, in every
\* state of the trainer.
C10_ResponseBytes ==
    last.op = "write" =>
        \A i \in ValuesSet(last.calls) :
            last.calls[i].value =
                <<128, last.data[1],
                  IF last.data[1] \in SupportedOpcodes THEN 1 ELSE 2>>

\* opcode 0x99 was answered with 0x80, 0x99, 0x02 while the trainer was in
\* ERG mode
C10_Witness ==
    /\ last.op = "write"
    /\ last.data = <<153>>
    /\ erg_mode_enabled
    /\ Len(last.calls) = 2
    /\ last.calls[1].value = <<128, 153, 2>>

InRanges ==
    /\ 0 <= power /\ power <= MaxPowerW * 100
    /\ 0 <= cadence /\ cadence <= MaxCadenceRpm * 100
    /\ 0 <= speed /\ speed <= MaxSpeedKmh * 100

\* C11: in every reachable state, between ticks too, power is in [0,2000] W,
\* cadence in [0,200] rpm and speed in [0,150] km/h; in particular right
\* after a Set Target Power with any int16 target and right after a Reset.
C11_AlwaysInRanges == InRanges

\* C12: from a state that is not stopped, not in ERG mode and not in super
\* tuck, at grade -8.1 %, a tick whose computed speed is 61.2 km/h ends with
\* is_super_tuck and power = cadence = 0.  (A tick that does not engage
\* super tuck leaves the computed speed in speed.)
C12_EngagesAt61Kmh ==
    [][(/\ last'.op = "tick"
        /\ ~is_stopped /\ ~erg_mode_enabled /\ ~is_super_tuck
        /\ current_grade = -810
        /\ speed' = 6120)
          => (is_super_tuck' /\ power' = 0 /\ cadence' = 0)]_vars

\* C13: a tick that starts with super tuck engaged, not stopped and not in
\* ERG mode, at a grade >= -3.0 %, ends with is_super_tuck false and
\* base_power equal to the base_power saved when super tuck was entered.
C13_ExitRestoresBasePower ==
    [][(/\ last'.op = "tick"
        /\ is_super_tuck /\ ~is_stopped /\ ~erg_mode_enabled
        /\ current_grade >= -300)
          => (~is_super_tuck' /\ base_power' = pre_super_tuck_base_power)]_vars

\* C14: the tick that follows an update W with level standard, at grade 0,
\* reports power within W +/- 10 % of W, cadence within 85 +/- 5 and
\* speed > 0; the tick that follows a stop reports power = cadence =
\* speed = 0.
C14_StartUpdateTickStopTick ==
    [][/\ (/\ last'.op = "tick"
           /\ last.op = "update" /\ last.watts > 0
           /\ power_variance_level = "standard"
           /\ current_grade = 0 /\ ~is_super_tuck)
             => (/\ power' >= last.watts * 90
                 /\ power' <= last.watts * 110
                 /\ cadence' >= 8000 /\ cadence' <= 9000
                 /\ speed' > 0)
       /\ (last'.op = "tick" /\ last.op = "stop") => AllZero']_vars

\* C15: an operator update with watts W in 1..2000 ends with is_stopped and
\* erg_mode_enabled false, target_power = 0 and power = base_power = W; an
\* update with watts 0 ends in the state stop produces from the same state.
C15_UpdateSetsManualPower ==
    [][/\ (last'.op = "update" /\ last'.watts \in 1..2000)
             => (/\ ~is_stopped'
                 /\ ~erg_mode_enabled'
                 /\ target_power' = 0
                 /\ power' = last'.watts * 100
                 /\ base_power' = last'.watts)
       /\ (last'.op = "update" /\ last'.watts = 0)
             => (self' = stop_power(self))]_vars

\* 'u 2000' was entered while super tuck was engaged
C15_Witness ==
    /\ last.op = "update"
    /\ last.data = <<"u", <<"2", "0", "0", "0">>>>
    /\ is_super_tuck
    /\ ~is_stopped /\ ~erg_mode_enabled /\ target_power = 0
    /\ power = 200000 /\ base_power = 2000

\* the fields C16 names as untouched by every listed opcode
simulationVars ==
    <<power, cadence, speed, base_power, target_power, erg_mode_enabled,
      is_stopped, is_super_tuck, current_grade, current_wind_speed>>

\* C16: Request Control, Set Target Resistance, Start/Resume, Stop/Pause
\* and every unsupported opcode leave power, cadence, speed, base_power,
\* target_power, erg_mode_enabled, is_stopped, is_super_tuck, grade and wind
\* unchanged; 0x04 changes nothing but target_resistance and 0x07 / 0x08
\* nothing but is_running.
C16_AcknowledgeOnlyOpcodes ==
    [][(/\ last'.op = "write"
        /\ Len(last'.data) >= 1
        /\ last'.data[1] \notin {1, 5, 17})
          => (/\ UNCHANGED simulationVars
              /\ UNCHANGED <<base_cadence, power_variance_level,
                             power_variance_percent,
                             pre_super_tuck_base_power>>
              /\ (last'.data[1] = 4) => UNCHANGED is_running
              /\ (last'.data[1] \in {7, 8}) => UNCHANGED target_resistance
              /\ (last'.data[1] \notin {4, 7, 8})
                    => UNCHANGED <<is_running, target_resistance>>)]_vars

\* Set Target Resistance -10 was handled while an ERG target was in force
C16_Witness ==
    /\ last.op = "write"
    /\ last.data = <<4, 246>>
    /\ target_resistance = -10
    /\ erg_mode_enabled /\ target_power = 200 /\ power > 0

\* C17: Set Simulation Parameters with a complete 7-byte frame carrying
\* wind w and grade g clears erg_mode_enabled, zeroes target_power if ERG
\* was enabled, and stores wind w/1000 m/s and grade g/100 % for g >= 0,
\* 2 * g/100 % for g < 0.
C17_SimulationParametersEffect ==
    [][(last'.op = "write" /\ Len(last'.data) = 7 /\ last'.data[1] = 17)
          => LET rw == last'.data[2] + 256 * last'.data[3]
                 rg == last'.data[4] + 256 * last'.data[5]
                 w == IF rw < 32768 THEN rw ELSE rw - 65536
                 g == IF rg < 32768 THEN rg ELSE rg - 65536
             IN /\ ~erg_mode_enabled'
                /\ erg_mode_enabled => (target_power' = 0)
                /\ current_wind_speed' = w
                /\ current_grade' = (IF g >= 0 THEN g ELSE 2 * g)]_vars

\* the frame with wind -1.5 m/s and raw grade -4.05 % was handled: the
\* grade is stored as -8.1 %
C17_Witness ==
    /\ last.op = "write"
    /\ last.data = <<17, 36, 250, 107, 254, 40, 51>>
    /\ current_grade = -810
    /\ current_wind_speed = -1500
    /\ ~erg_mode_enabled /\ target_power = 0

\* a console line that is not a well-formed command: an unknown verb, 'u'
\* with no watts, 'u' with watts that is no integer or outside 0..2000
Malformed(line) ==
    \/ Len(line) = 0
    \/ line[1] \notin {"s", "start", "stop", "u", "q", "quit", "exit"}
    \/ line[1] = "u" /\ Len(line) = 1
    \/ /\ line[1] = "u" /\ Len(line) >= 2
       /\ \/ ~ParseInt(line[2]).ok
          \/ ParseInt(line[2]).v \notin 0..2000

\* C18: a malformed operator line changes no field of the trainer.
C18_MalformedLineChangesNothing ==
    [][(/\ last'.op \in {"start", "update", "stop", "rejected"}
        /\ Malformed(last'.data))
          => UNCHANGED trainerVars]_vars

\* 'u 2001' was entered on a running trainer
C18_Witness ==
    /\ last.op = "update"
    /\ last.data = <<"u", <<"2", "0", "0", "1">>>>
    /\ last.watts = 2001
    /\ ~is_stopped
    /\ base_power = 200

\* C19: start on a stopped trainer clears is_stopped and leaves power = 0,
\* base_power = 0 and cadence = 0; start on a trainer that is not stopped
\* changes no field.
C19_StartEffect ==
    [][(last'.op = "start")
          => IF is_stopped
             THEN /\ ~is_stopped'
                  /\ power' = 0 /\ base_power' = 0 /\ cadence' = 0
             ELSE UNCHANGED trainerVars]_vars

\* start was entered on a running trainer: its 200 W are still there
C19_Witness ==
    /\ last.op = "start"
    /\ ~is_stopped
    /\ base_power = 200 /\ power > 0

\* The transport raised on the last call of the operation
Raised ==
    /\ last.op \in {"publish", "write"}
    /\ last.calls # << >>
    /\ last.calls[Len(last.calls)].call = "raise"

LoopPositions ==
    {"simulate", "encode_bike", "publish_bike", "encode_power",
     "publish_power", "sleep"}

\* C21: a transport error raised while a telemetry value is set or notified,
\* or while a control-point response is sent, does not end the update loop:
\* the loop stays at one of its statements, a publish that raised leaves it
\* at the sleep that ends the pass, and the simulation step of the next pass
\* runs.
C21_LoopSurvivesTransportErrors ==
    /\ [](loop.pc \in LoopPositions)
    /\ [](Raised /\ last.op = "publish" => loop.pc = "sleep")
    /\ (Raised ~> (last.op = "tick"))

\* The pass after a pass that raised has requested both notifications
C21_Witness ==
    /\ loop.failed
    /\ last.op = "publish"
    /\ last.char = CYCLING_POWER_MEASUREMENT_UUID
    /\ Len(last.calls) = 2
    /\ last.calls[2].call = "update_value"
    /\ held.bike = loop.bike_data

\* The trainer as the tick of this pass left it
TickedTrainer ==
    [self EXCEPT !.power = loop.ticked[1], !.cadence = loop.ticked[2],
                 !.speed = loop.ticked[3]]

\* The last step requested a notification (update_value returned or raised)
Notified == last.op = "publish" /\ Len(last.calls) = 2

\* C22: in every pass the held value of a telemetry characteristic is set
\* before its notification is requested, and when the notification of Indoor
\* Bike Data or Cycling Power Measurement is requested the held value is the
\* encoding of the trainer the tick of that pass produced.
C22_NotifiesTheTickOfThePass ==
    Notified =>
        /\ last.calls[1].call = "set_value"
        /\ last.calls[1].char = last.char
        /\ last.char = INDOOR_BIKE_DATA_UUID =>
              /\ held.bike = last.calls[1].value
              /\ held.bike = _encode_indoor_bike_data(TickedTrainer).data
        /\ last.char = CYCLING_POWER_MEASUREMENT_UUID =>
              /\ held.powerm = last.calls[1].value
              /\ held.powerm
                   = _encode_cycling_power_measurement(TickedTrainer).data

\* C23: every speed the solver returns for a power in [0, 2000] W lies in
\* [0, 150] km/h, whatever the grade and wind and whichever path the solver
\* takes (converged root, estimate for a negative root, fallback after an
\* exception).
C23_SolverSpeedInRange ==
    last.op = "tick" =>
        \A i \in 1..Len(last.calls) :
            (0 <= last.calls[i].power /\ last.calls[i].power <= MaxPowerW * 100)
                => /\ 0 <= last.calls[i].speed
                   /\ last.calls[i].speed <= MaxSpeedKmh * 100

\* struct.unpack('<H', two bytes), as a client reads a field
UnpackUint16(lo, hi) == lo + 256 * hi

\* The encoder has just packed the trainer into an Indoor Bike Data record
EncodedBikeData == last.op = "encode" /\ last.char = INDOOR_BIKE_DATA_UUID

\* C24: for a trainer within the documented ranges, the Indoor Bike Data
\* record is 8 bytes (uint16 flags, uint16 speed x 100, uint16 cadence x 2,
\* int16 power, little-endian) and decoding it gives the speed within
\* 0.01 km/h, the cadence within 0.5 rpm and the power within 1 W.
C24_BikeDataRoundTrip ==
    EncodedBikeData /\ InRanges =>
        LET d == last.data IN
        /\ Len(d) = 8
        /\ Abs(UnpackUint16(d[3], d[4]) - speed) <= 1
        /\ Abs(UnpackUint16(d[5], d[6]) * 50 - cadence) <= 50
        /\ Abs(UnpackInt16(d[7], d[8]) * 100 - power) <= 100

\* A record of a moving trainer whose power is not a whole number of watts
C24_Witness ==
    /\ EncodedBikeData
    /\ InRanges
    /\ power % 100 # 0
    /\ speed > 0
    /\ cadence > 0

\* The last step was a tick of a trainer that is not stopped; last.data
\* holds the tick's intermediate values
Simulated == last.op = "tick" /\ ~is_stopped

ErgGoverns == erg_mode_enabled /\ target_power > 0
ExactGoverns == ~ErgGoverns /\ power_variance_level = "exact"
NormalGoverns == ~ErgGoverns /\ power_variance_level # "exact"

\* v clamped to [lo, hi]
Clamp(v, lo, hi) == Max(lo, Min(hi, v))

\* The tick's power is some power of [centre - amount, centre + amount]
\* clamped to [lo, 2000 W]
PowerAround(centre, amount, lo) ==
    /\ Clamp(centre - amount, lo, MaxPowerW * 100) <= power
    /\ power <= Clamp(centre + amount, lo, MaxPowerW * 100)

\* c is within base_cadence +- cadence_variation
CadenceAround(c) == Abs(c - base_cadence * 100) <= cadence_variation * 100

\* What a tick under each rule leaves behind
ErgApplied ==
    /\ PowerAround(target_power * 100, target_power * ErgVariancePercent, 100)
    /\ CadenceAround(cadence)
    /\ ~is_super_tuck
ExactApplied ==
    /\ power = Clamp(target_power * 100, 0, MaxPowerW * 100)
    /\ cadence = base_cadence * 100
    /\ ~is_super_tuck
NormalApplied ==
    /\ CadenceAround(last.data[5])
    /\ last.data[4] = 0 => last.data[1] = 0
    /\ is_super_tuck => power = 0 /\ cadence = 0
    /\ ~is_super_tuck =>
          /\ power = Clamp(last.data[1], 0, MaxPowerW * 100)
          /\ cadence = last.data[5]

\* C25: each tick applies one power rule, chosen in the order Stopped, ERG
\* (erg_mode_enabled and target_power > 0), Exact level, Normal: a stopped
\* trainer reports zeros also in ERG mode, and ERG with a positive target
\* is applied also when the level is Exact.
C25_OneRuleByPriority ==
    last.op = "tick" =>
        IF is_stopped THEN AllZero
        ELSE IF ErgGoverns THEN ErgApplied
        ELSE IF power_variance_level = "exact" THEN ExactApplied
        ELSE NormalApplied

\* A tick in ERG mode at the Exact level whose power is not the target:
\* the ERG rule drew its jitter
C25_Witness ==
    /\ Simulated
    /\ ErgGoverns
    /\ power_variance_level = "exact"
    /\ power # target_power * 100
    /\ cadence # base_cadence * 100

\* C26: after a non-stopped tick with erg_mode_enabled and target_power
\* T > 0 the power is within T +- 3 % of T clamped to [1, 2000] W, whatever
\* base_power and the grade are, the cadence is within base_cadence +-
\* cadence_variation and is_super_tuck is false.
C26_ErgTick ==
    Simulated /\ ErgGoverns =>
        /\ 100 <= power /\ power <= MaxPowerW * 100
        /\ \/ 100 * Abs(power - target_power * 100)
                <= ErgVariancePercent * target_power * 100
           \/ power = 100 /\ target_power * (100 - ErgVariancePercent) < 100
           \/ power = MaxPowerW * 100
                /\ target_power * (100 + ErgVariancePercent)
                      > MaxPowerW * 100
        /\ Abs(cadence - base_cadence * 100) <= cadence_variation * 100
        /\ ~is_super_tuck

\* An ERG tick on a descent, started in super tuck, that ends at the 1 W
\* minimum
C26_Witness ==
    /\ Simulated
    /\ ErgGoverns
    /\ current_grade < 0
    /\ last.data[3]
    /\ power = 100
    /\ ~is_super_tuck

\* C30: in a non-stopped tick under the Normal rule, with
\* E = base_power * (1 + 4 * grade / 100) and f the variance fraction of the
\* level, the power before the clamp is within [E - |E| f, E + |E| f] when
\* base_power > 0 and is 0 when base_power = 0, and the rule's cadence is
\* within base_cadence +- cadence_variation.  (Both sides of the power
\* bound are multiplied by 10000.)
C30_NormalTick ==
    Simulated /\ NormalGoverns =>
        LET E100 == last.data[4] * (10000 + 4 * current_grade)
            f == VARIANCE_LEVELS[power_variance_level]
        IN /\ last.data[4] > 0 =>
                 Abs(10000 * last.data[1] - 100 * E100) <= Abs(E100) * f
           /\ last.data[4] = 0 => last.data[1] = 0
           /\ Abs(last.data[5] - base_cadence * 100)
                 <= cadence_variation * 100

\* A Normal tick on the -26 % grade, where E is negative, that drew a
\* jitter
C30_Witness ==
    /\ Simulated
    /\ NormalGoverns
    /\ last.data[4] > 0
    /\ 4 * current_grade < -10000
    /\ 100 * last.data[1] # last.data[4] * (10000 + 4 * current_grade)

ConvergedAnswer(pw) ==
    [kind |-> "root", v |-> PhysicsRoot(pw, current_grade, current_wind_speed)]

Engaged == Simulated /\ ~last.data[3] /\ is_super_tuck
Disengaged == Simulated /\ last.data[3] /\ ~is_super_tuck

\* C28: while the grade and the wind stay the same and no command comes
\* between the ticks, a tick that follows a tick which engaged super tuck
\* does not disengage it, and one that follows a tick which disengaged it
\* does not engage it again.
C28_NoOscillation ==
    [][(last'.op = "tick" /\ current_grade' = current_grade
          /\ current_wind_speed' = current_wind_speed) =>
         /\ Engaged => is_super_tuck'
         /\ Disengaged => ~is_super_tuck']_vars

\* C31: a non-stopped tick at the Exact level to which the ERG rule does
\* not apply draws no jitter: its power is target_power, clamped to
\* [0, 2000] W, its cadence is base_cadence, and super tuck is off after
\* the tick.
C31_ExactTick ==
    Simulated /\ ExactGoverns =>
        /\ last.data[1] = target_power * 100
        /\ last.data[5] = base_cadence * 100
        /\ ExactApplied

\* An Exact tick after the operator's 'u 200 exact': ERG mode is off, the
\* target is 0 and the tick reports 0 W at base_cadence
C31_Witness ==
    /\ Simulated
    /\ ExactGoverns
    /\ ~erg_mode_enabled
    /\ base_power = 200
    /\ power = 0
    /\ cadence = base_cadence * 100

\* C32: handling Reset (0x01) clears erg_mode_enabled, zeroes target_power,
\* sets power to base_power and cadence to base_cadence, and leaves
\* is_stopped, is_super_tuck, base_power, the grade and the wind as they
\* were.
C32_ResetEffect ==
    [][(last'.op = "write" /\ last'.data = <<1>>) =>
         /\ ~erg_mode_enabled'
         /\ target_power' = 0
         /\ power' = base_power * 100
         /\ cadence' = base_cadence * 100
         /\ UNCHANGED <<is_stopped, is_super_tuck, base_power,
                        current_grade, current_wind_speed>>]_vars

\* A Reset received in super tuck: power and cadence are back at the
\* operator's setting while is_super_tuck stays set
C32_Witness ==
    /\ last.op = "write"
    /\ last.data = <<1>>
    /\ is_super_tuck
    /\ base_power = 200
    /\ power = 20000
    /\ cadence = base_cadence * 100
    /\ ~erg_mode_enabled

\* C33: the rider mass, the drag area CdA, the rolling resistance Crr and
\* the air density have their construction-time values in every reachable
\* state: no control-point command (Set Simulation Parameters with its Crr
\* and Cw bytes included), no operator command and no tick changes them.
C33_PhysicsConstantsKept ==
    physics = [rider_weight |-> rider_weight, cda |-> cda,
               crr |-> crr, rho |-> rho]

\* A complete Set Simulation Parameters frame was handled whose Cw byte
\* differs from the drag area the trainer keeps
C33_Witness ==
    /\ last.op = "write"
    /\ Len(last.data) = 7
    /\ last.data[1] = 17
    /\ last.data[7] * 10 # cda
    /\ current_grade = -810
    /\ physics.cda = cda

\* C34: the flags field of every encoded Indoor Bike Data record has the
\* 'instantaneous cadence present' bit (bit 2) and the 'instantaneous power
\* present' bit (bit 6) set and no other bit, and the flags field of every
\* Cycling Power Measurement record is 0.
C34_RecordFlags ==
    /\ (last.op = "encode" /\ last.char = INDOOR_BIKE_DATA_UUID
          /\ loop.pc = "publish_bike") =>
           UnpackUint16(last.data[1], last.data[2]) = 2^2 + 2^6
    /\ (last.op = "encode" /\ last.char = CYCLING_POWER_MEASUREMENT_UUID
          /\ loop.pc = "publish_power") =>
           UnpackUint16(last.data[1], last.data[2]) = 0

\* C35: in every reachable state erg_mode_enabled = FALSE implies
\* target_power = 0.  The steps that clear ERG mode are Reset (0x01), Set
\* Simulation Parameters (0x11) and the operator's update, and each leaves
\* target_power at 0; the only step that sets a non-zero target is Set
\* Target Power (0x05).
C35_NoTargetOutsideErg ==
    /\ [](~erg_mode_enabled => target_power = 0)
    /\ [][(erg_mode_enabled /\ ~erg_mode_enabled') =>
            /\ target_power' = 0
            /\ \/ last'.op = "update"
               \/ last'.op = "write" /\ last'.data[1] \in {1, 17}]_vars
    /\ [][(target_power' # target_power /\ target_power' # 0) =>
            (last'.op = "write" /\ last'.data[1] = 5)]_vars

\* ERG mode with a target of 200 W was cleared by a Set Simulation
\* Parameters frame before any tick: the power is still the target's, the
\* base power is still the 0 that Set Target Power left
C35_Witness ==
    /\ last.op = "write"
    /\ Len(last.data) >= 1
    /\ last.data[1] = 17
    /\ ~erg_mode_enabled
    /\ target_power = 0
    /\ power = 20000
    /\ base_power = 0

\* C36: after the operator's update W (1 <= W <= 2000) with level exact,
\* entered on a started trainer, the tick that follows with no command in
\* between reports power = W.
C36_ExactUpdateReportsWatts ==
    [][(/\ ~is_stopped
        /\ last'.op = "update"
        /\ last'.level = "exact"
        /\ last'.watts \in 1..MaxPowerW) =>
          \A r \in simulate_realistic_data(self', "either") :
              r.st.power = last'.watts * 100]_vars

\* C37: an operator update W entered while super tuck is engaged is not
\* lost: when the hysteresis exit disengages super tuck afterwards,
\* base_power is W, the operator's latest setting, and not the value saved
\* when super tuck was entered.
C37_UpdateInSuperTuckKept ==
    [][(/\ last.op = "update"
        /\ last.watts \in 1..MaxPowerW
        /\ is_super_tuck
        /\ power_variance_level # "exact"
        /\ last'.op = "tick"
        /\ ~is_super_tuck') => base_power' = last.watts]_vars

\* C38: while erg_mode_enabled is true with target_power = 0, after Set
\* Target Power (0x05) with target 0 and before any Reset, Set Simulation
\* Parameters or operator command, a tick reports power = 0, whatever
\* base_power an earlier operator update has set.
C38_ZeroTargetReportsZero ==
    [][(/\ last.op = "write"
        /\ Len(last.data) >= 3
        /\ last.data[1] = 5
        /\ erg_mode_enabled
        /\ target_power = 0
        /\ last'.op = "tick") => power' = 0]_vars

\* C39: however the operator's thread interleaves with update_loop, once
\* stop has returned and the tick that was in progress has finished, power,
\* cadence and speed are 0, and no telemetry record encoded while
\* is_stopped is true carries a non-zero power, cadence or speed.
C39_StopHoldsUnderInterleaving ==
    /\ (is_stopped /\ loop.pc \notin {"power_rule", "speed"}) => AllZero
    /\ (is_stopped /\ last.op = "encode"
          /\ loop.pc \in {"publish_bike", "publish_power"}) =>
           \A i \in 3..Len(last.data) : last.data[i] = 0

====
